---- MODULE Spec2Model ----
(***************************************************************************)
(* The generic search driver of src/src/search.rs (breadth first, enforced *)
(* hill climbing, greedy best first, A* ) over the frontiers of            *)
(* src/src/queue.rs, run on small explicit state spaces, on the test      *)
(* domain of search.rs and on the 8-puzzle boards of src/src/board.rs.     *)
(*                                                                         *)
(* A graph domain is a triple (succ, heuristic, goal): succ[s] is the      *)
(* sequence State::successors returns for s, heuristic[s] the value of the *)
(* caller's H closure, goal the set of states the caller's G closure       *)
(* accepts.  On the board domain successors and heuristic are computed     *)
(* from the board and succ and heuristic stay empty.                       *)
(* Transitions live in the arena trans; an Rc<Transition> is its position  *)
(* in the arena, so a parent link is a position and 0 stands for None.     *)
(* a_star_eval, Board::successors and Board::manhattan_dist are also       *)
(* called on their own, with the variable probe holding arguments and      *)
(* result.                                                                 *)
(***************************************************************************)
EXTENDS Integers, Sequences, FiniteSets, TLC

\* ------------------------------------------------------------------ bounds

NumStates == 3      \* states of the general domains: 0 .. NumStates-1
MaxSucc == 2        \* longest successors() result
MaxH == 1           \* finite heuristic values are 0 .. MaxH
NumChain == 5       \* states of the forward (acyclic) domains
MaxTransitions == 7 \* no run on NumStates states constructs this many transitions
MaxBoardTransitions == 700 \* nor does a run of SpecBoard construct this many

I32_MAX == 2147483647

\* ------------------------------------------------------------------ inputs

Strategies ==
    {"breadth_first_search", "ehc_search", "ehc_steepest_search",
     "greedy_best_first_search", "a_star_search"}

VARIABLES
    strategy,       \* which public entry point was called
    initial,        \* the initial state
    succ,           \* State::successors, a function state -> sequence of states
    heuristic,      \* the H closure handed to search(), state -> i32
    goal,           \* the G closure handed to search(), as the set it accepts
    domain,         \* the State type: "graph" (succ, heuristic) or "board"
    seen,           \* the closed set: state -> position in trans, 0 when absent
    trans,          \* every Transition constructed so far, in construction order
    queue,          \* the frontier: positions in trans, in enqueue order
    index,          \* the u32 index counter of search()
    best_h,         \* best heuristic value seen so far
    statistics,     \* [created, queued, expanded]
    pc,             \* "loop": at the while; "for": in the successor loop; "done"
    transition,     \* position of the transition being expanded (0: none)
    successors,     \* the successors left to run through in the for loop
    dequeued,       \* positions handed out by queue.dequeue(), in order
    result,         \* [returned |-> BOOLEAN, plan |-> Option as <<>> or <<p>>]
    probe           \* a function called on its own: its arguments and result

vars == <<strategy, initial, succ, heuristic, goal, domain, seen, trans, queue,
          index, best_h, statistics, pc, transition, successors, dequeued,
          result, probe>>

inputs == <<strategy, initial, succ, heuristic, goal, domain>>

States == DOMAIN succ

\* more transitions than any run constructs (CapNotReached): MaxTransitions on
\* NumStates states, two more for every further state
TransitionCap ==
    IF domain = "board" THEN MaxBoardTransitions
    ELSE MaxTransitions + 2 * (Cardinality(States) - NumStates)

None == <<>>
Some(x) == <<x>>

\* ------------------------------------------------------------------ SearchConfig

\* the default configuration with the ehc flag set
SearchConfigDefaultEhc ==
    [compute_heuristic |-> TRUE, ehc |-> TRUE, best_first_successors |-> FALSE]

SearchConfigDefault ==
    [compute_heuristic |-> TRUE, ehc |-> FALSE, best_first_successors |-> FALSE]

SearchConfigBlind ==
    [compute_heuristic |-> FALSE, ehc |-> FALSE, best_first_successors |-> FALSE]

SearchConfigEhc ==
    [compute_heuristic |-> TRUE, ehc |-> TRUE, best_first_successors |-> FALSE]

SearchConfigEhcSteepestAscent ==
    [compute_heuristic |-> TRUE, ehc |-> TRUE, best_first_successors |-> TRUE]

\* the SearchConfig each entry point hands to search()
Config(st) ==
    CASE st = "breadth_first_search" -> SearchConfigBlind
      [] st = "ehc_search" -> SearchConfigEhc
      [] st = "ehc_steepest_search" -> SearchConfigEhcSteepestAscent
      [] OTHER -> SearchConfigDefault

\* the frontier each entry point builds
QueueKind(st) ==
    IF st \in {"greedy_best_first_search", "a_star_search"}
    THEN "PriorityCmp" ELSE "Fifo"

\* blind_heuristic
BlindHeuristic(S) == [s \in S |-> 0]

\* ------------------------------------------------------------------ Transition

\* Transition::new
NewInitial(state, h) ==
    [state |-> state, parent |-> 0, g |-> 0, index |-> 0, h |-> h]

\* x + 1 on a u32 counter (g, index).  The counter wraps (release build) or
\* panics (debug build) at 2^32, which no run over a domain of a handful of
\* states comes near: every run here constructs fewer than TransitionCap
\* transitions.
U32Inc(x) == x + 1

\* the Initial transition is stored as the parent instead of the expanded one
NewSuccessorOfInitial(state, parent, idx, h) ==
    [state |-> state, parent |-> 1,
     g |-> U32Inc(trans[parent].g), index |-> idx, h |-> h]

\* the successor keeps the g of its parent instead of adding one
NewSuccessorSameG(state, parent, idx, h) ==
    [state |-> state, parent |-> parent,
     g |-> trans[parent].g, index |-> idx, h |-> h]

\* Transition::successor: g = parent.g() + 1
NewSuccessor(state, parent, idx, h) ==
    [state |-> state, parent |-> parent,
     g |-> U32Inc(trans[parent].g), index |-> idx, h |-> h]

\* a u32 as two numbers no larger than i32::MAX: the value is
\* high * 2^31 + low (TLC has no integers above i32::MAX)
U32Halves(x) ==
    IF x > I32_MAX THEN [high |-> 1, low |-> (x - I32_MAX) - 1]
    ELSE [high |-> 0, low |-> x]

\* `x as i32` of a u32: values above i32::MAX come out negative (x - 2^32)
AsI32(x) == IF x.high = 1 THEN (x.low - I32_MAX) - 1 ELSE x.low

\* ------------------------------------------------------------------ frontiers

CmpInt(a, b) == IF a < b THEN "Less" ELSE IF a > b THEN "Greater" ELSE "Equal"

\* Ordering::then_with
ThenWith(o1, o2) == IF o1 = "Equal" THEN o2 ELSE o1

\* a_star_eval: g + h, or i32::MAX when h is so high that the sum would overflow
a_star_eval_of(g, h) ==
    IF I32_MAX - h <= AsI32(g)
    THEN I32_MAX
    ELSE h + AsI32(g)

\* a_star_eval on a transition: state_transition.g() and state_transition.h()
a_star_eval(t) == a_star_eval_of(U32Halves(t.g), t.h)

\* g is compared first, then h, then index
GreedyCmpWithG(s1, s2) ==
    ThenWith(ThenWith(CmpInt(s2.g, s1.g), CmpInt(s2.h, s1.h)),
             CmpInt(s2.index, s1.index))

\* the comparator closure of greedy_best_first_search (reversed: a min heap)
GreedyCmp(s1, s2) ==
    ThenWith(CmpInt(s2.h, s1.h), CmpInt(s2.index, s1.index))

\* ties on f go straight to the index, h is not looked at
AStarCmpWithoutH(s1, s2) ==
    ThenWith(CmpInt(a_star_eval(s2), a_star_eval(s1)),
             CmpInt(s2.index, s1.index))

\* the comparator closure of a_star_search (reversed: a min heap)
AStarCmp(s1, s2) ==
    ThenWith(ThenWith(CmpInt(a_star_eval(s2), a_star_eval(s1)),
                      CmpInt(s2.h, s1.h)),
             CmpInt(s2.index, s1.index))

\* the comparator the entry point st builds its PriorityCmp with
Compare(st, s1, s2) ==
    IF st = "a_star_search" THEN AStarCmp(s1, s2) ELSE GreedyCmp(s1, s2)

\* pop_back in place of pop_front
FifoDequeueBack(q) == {Len(q)}

\* Fifo::dequeue: pop_front, the position in the queue that is handed out
FifoDequeue(q) == {1}

\* PriorityCmp::dequeue: BinaryHeap::pop hands out a greatest element under the
\* comparator; which one among several greatest ones is the heap's business
PriorityCmpDequeue(st, q) ==
    {k \in 1..Len(q) :
        \A j \in 1..Len(q) : Compare(st, trans[q[j]], trans[q[k]]) # "Greater"}

\* queue.dequeue(): the positions of q the call may hand out (empty: None)
Dequeue(st, q) ==
    IF q = <<>> THEN {}
    ELSE IF QueueKind(st) = "Fifo" THEN FifoDequeue(q)
    ELSE PriorityCmpDequeue(st, q)

RemoveAt(q, k) == SubSeq(q, 1, k - 1) \o SubSeq(q, k + 1, Len(q))

\* queue.enqueue(item): push_back / push
Enqueue(q, item) == Append(q, item)

\* the frontier keeps its entries
ClearKeepsEntries(q) == q

\* queue.clear()
Clear(q) == <<>>

\* ------------------------------------------------------------------ the 8-puzzle

\* the indices of Board::tiles
Positions == 0..8

Tiles == 0..8

\* the array [i8; 9] written as nine numbers
TilesOf(row) == [i \in Positions |-> row[i + 1]]

\* find_zero: the position of tile 0
find_zero(tiles) == CHOOSE i \in Positions : tiles[i] = 0

\* Board::new
BoardNew(tiles) == [tiles |-> tiles, zero |-> find_zero(tiles)]

\* the constant GOAL: tiles 1 2 3 4 5 6 7 8 0, with the zero field written 0
GOAL == [tiles |-> TilesOf(<<1, 2, 3, 4, 5, 6, 7, 8, 0>>), zero |-> 0]

\* GOAL_MAP: tile -> its index in GOAL.tiles
GOAL_MAP == [tile \in Tiles |-> CHOOSE i \in Positions : GOAL.tiles[i] = tile]

\* Board::swap
swap(b, pos1, pos2) ==
    IF pos1 = pos2 THEN BoardNew(b.tiles)
    ELSE BoardNew([b.tiles EXCEPT ![pos1] = b.tiles[pos2],
                                  ![pos2] = b.tiles[pos1]])

\* the blank is moved one index down or up wherever the index exists, with no
\* regard to the row it is in
BoardSuccessorsAcrossRows(b) ==
    (IF b.zero < 8 THEN <<swap(b, b.zero, b.zero + 1)>> ELSE <<>>)
        \o (IF b.zero <= 5 THEN <<swap(b, b.zero, b.zero + 3)>> ELSE <<>>)
        \o (IF b.zero >= 3 THEN <<swap(b, b.zero, b.zero - 3)>> ELSE <<>>)
        \o (IF b.zero > 0 THEN <<swap(b, b.zero, b.zero - 1)>> ELSE <<>>)

\* Board::successors, in the order the moves are pushed
BoardSuccessors(b) ==
    (IF b.zero % 3 # 2 THEN <<swap(b, b.zero, b.zero + 1)>> ELSE <<>>)
        \o (IF b.zero <= 5 THEN <<swap(b, b.zero, b.zero + 3)>> ELSE <<>>)
        \o (IF b.zero >= 3 THEN <<swap(b, b.zero, b.zero - 3)>> ELSE <<>>)
        \o (IF b.zero % 3 # 0 THEN <<swap(b, b.zero, b.zero - 1)>> ELSE <<>>)

\* Board::successor_count
successor_count(b) ==
    CASE b.zero = 4 -> 4
      [] b.zero % 2 = 1 -> 3
      [] OTHER -> 2

Abs(x) == IF x < 0 THEN -x ELSE x

\* to_coordinates: (pos % 3, pos / 3)
to_coordinates(pos) == <<pos % 3, pos \div 3>>

\* manhattan_dist_positions
manhattan_dist_positions(pos1, pos2) ==
    IF pos1 = pos2 THEN 0
    ELSE Abs(to_coordinates(pos2)[1] - to_coordinates(pos1)[1])
             + Abs(to_coordinates(pos2)[2] - to_coordinates(pos1)[2])

\* the loop of Board::manhattan_dist from index i on: every tile, the blank too
RECURSIVE ManhattanFrom(_, _)
ManhattanFrom(tiles, i) ==
    IF i > 8 THEN 0
    ELSE manhattan_dist_positions(i, GOAL_MAP[tiles[i]])
             + ManhattanFrom(tiles, i + 1)

\* Board::manhattan_dist
manhattan_dist(b) == ManhattanFrom(b.tiles, 0)

\* search() knows a state by Eq and Hash alone, and Eq on a Board compares
\* the tiles: a board is handed to search() as the number its tiles spell in
\* base 9, tiles[0] the lowest digit
RECURSIVE BoardIdFrom(_, _)
BoardIdFrom(tiles, i) ==
    IF i > 8 THEN 0 ELSE tiles[i] + 9 * BoardIdFrom(tiles, i + 1)

BoardId(b) == BoardIdFrom(b.tiles, 0)

RECURSIVE Pow9(_)
Pow9(i) == IF i = 0 THEN 1 ELSE 9 * Pow9(i - 1)

\* the board a number stands for
BoardOf(id) == BoardNew([i \in Positions |-> (id \div Pow9(i)) % 9])

\* BoardState::successors
BoardStateSuccessors(id) ==
    LET boards == BoardSuccessors(BoardOf(id))
    IN  [k \in 1..Len(boards) |-> BoardId(boards[k])]

\* ------------------------------------------------------------------ search helpers

\* state.successors(): the graph's list, or the moves of the board
SuccessorsOf(s) ==
    IF domain = "board" THEN BoardStateSuccessors(s) ELSE succ[s]

\* heuristic(&state): the graph's value; on a board the Manhattan distance,
\* and blind_heuristic under breadth_first_search
HeuristicOf(s) ==
    IF domain = "board"
    THEN IF strategy = "breadth_first_search" THEN 0
         ELSE manhattan_dist(BoardOf(s))
    ELSE heuristic[s]

\* seen.get(state): the position in trans of the entry, 0 for None
SeenGet(sn, state) == IF state \in DOMAIN sn THEN sn[state] ELSE 0

\* seen.insert(state, transition): the entry for state is replaced
SeenInsert(sn, state, at) ==
    IF state \in DOMAIN sn THEN [sn EXCEPT ![state] = at]
    ELSE (state :> at) @@ sn

\* any closed-set entry prunes, whatever its g
seen_whatever_g(sn, state, g) == SeenGet(sn, state) # 0

\* the closed set is never consulted
seen_and_better_never(sn, state, g) == FALSE

\* seen_and_better: the closed set holds state with a g not above the candidate's
seen_and_better(sn, state, g) ==
    SeenGet(sn, state) # 0 /\ trans[SeenGet(sn, state)].g <= g

\* the filter of search(): the successors not pruned, every one tested against
\* the closed set as it is before any of them is inserted
FilterSuccessors(list, sn, g) ==
    SelectSeq(list, LAMBDA s : ~seen_and_better(sn, s, g))

\* the successors stay in the order successors() gave them
SortByHKeepsOrder(list, H) == list

\* Vec::sort_by on heuristic(a).partial_cmp(heuristic(b)): stable, ascending h
RECURSIVE SortByH(_, _)
SortByH(list, H) ==
    IF list = <<>> THEN <<>>
    ELSE LET front == SortByH(SubSeq(list, 1, Len(list) - 1), H)
             x == list[Len(list)]
             k == Cardinality({i \in 1..Len(front) : H[front[i]] <= H[x]})
         IN  SubSeq(front, 1, k) \o <<x>> \o SubSeq(front, k + 1, Len(front))

\* the successors search() runs through when expanding the transition at t
SurvivingSuccessors(st, t) ==
    LET filtered == FilterSuccessors(SuccessorsOf(trans[t].state), seen,
                                     U32Inc(trans[t].g))
    IN  IF Config(st).compute_heuristic /\ Config(st).best_first_successors
        THEN SortByH(filtered,
                     [s \in {filtered[i] : i \in 1..Len(filtered)} |->
                         HeuristicOf(s)])
        ELSE filtered

\* extract_plan: push_front the states along the parent links
RECURSIVE PushFrontParents(_, _)
PushFrontParents(current, plan) ==
    IF trans[current].parent = 0 THEN plan
    ELSE PushFrontParents(trans[current].parent,
                          <<trans[trans[current].parent].state>> \o plan)

\* the walk stops one parent short: the Initial transition's state is left out
extract_plan_short(goal_transition) ==
    LET plan == PushFrontParents(goal_transition, <<trans[goal_transition].state>>)
    IN  IF Len(plan) > 1 THEN Tail(plan) ELSE plan

extract_plan(goal_transition) ==
    PushFrontParents(goal_transition, <<trans[goal_transition].state>>)

\* the goal is not tested on the initial state
GoalTestNotInitial(s) == s \in goal /\ s # initial

\* the goal closure
GoalTest(s) == s \in goal

\* expanded is not counted
CountExpandedNot(stats) == stats

\* statistics.expanded += 1
CountExpanded(stats) == [stats EXCEPT !.expanded = @ + 1]

\* created is not counted
CountCreatedNot(stats) == stats

\* statistics.created += 1 at the top of the for loop's body
CountCreated(stats) == [stats EXCEPT !.created = @ + 1]

\* statistics.queued += 1 after queue.enqueue
CountQueued(stats) == [stats EXCEPT !.queued = @ + 1]

\* index is not advanced
NextIndexStuck(i) == i

\* index += 1
NextIndex(i) == U32Inc(i)


\* ------------------------------------------------------------------ domains

SeqsUpTo(S, n) == UNION {[1..k -> S] : k \in 0..n}

\* sequences without repetition
Injective(q) == \A i, j \in 1..Len(q) : i # j => q[i] # q[j]

HValues == 0..MaxH

\* the heuristics an entry point can hand to search(): breadth_first_search
\* takes none and hands over blind_heuristic
Heuristics(st, S) ==
    IF st = "breadth_first_search" THEN {BlindHeuristic(S)} ELSE [S -> HValues]

\* search() up to the while loop: the closed set and the frontier hold the
\* Initial transition, statistics = {created: 1, queued: 1, expanded: 0}
SearchStart ==
    /\ trans = <<NewInitial(initial, HeuristicOf(initial))>>
    /\ seen = IF domain = "board" THEN (initial :> 1)
              ELSE [s \in States |-> IF s = initial THEN 1 ELSE 0]
    /\ queue = Enqueue(<<>>, 1)
    /\ index = 0
    /\ best_h = HeuristicOf(initial)
    /\ statistics = [created |-> 1, queued |-> 1, expanded |-> 0]
    /\ pc = "loop"
    /\ transition = 0
    /\ successors = <<>>
    /\ dequeued = <<>>
    /\ result = [returned |-> FALSE, plan |-> None]
    /\ probe = None

\* every domain on NumStates states whose successors() results have at most
\* MaxSucc entries (repetitions, self loops and cycles included), every goal
\* set, every heuristic into HValues, every entry point.  State 0 is the
\* initial state: the driver never looks at what a state is, only at equality.
Init ==
    /\ strategy \in Strategies
    /\ initial = 0
    /\ domain = "graph"
    /\ succ \in [0..(NumStates - 1) -> SeqsUpTo(0..(NumStates - 1), MaxSucc)]
    /\ goal \in SUBSET (0..(NumStates - 1))
    /\ heuristic \in Heuristics(strategy, 0..(NumStates - 1))
    /\ SearchStart

\* the same domains with the goal sets under which the goal can be out of
\* reach while states are left to search: no goal state at all, or the last
\* state alone, where the heuristic is 0
InitFewGoals ==
    /\ strategy \in Strategies
    /\ initial = 0
    /\ domain = "graph"
    /\ succ \in [0..(NumStates - 1) -> SeqsUpTo(0..(NumStates - 1), MaxSucc)]
    /\ goal \in {{}, {NumStates - 1}}
    /\ heuristic \in {H \in Heuristics(strategy, 0..(NumStates - 1)) :
                          H[NumStates - 1] = 0}
    /\ SearchStart

\* strictly ascending sequences
Ascending(q) == \A i, j \in 1..Len(q) : i < j => q[i] < q[j]

AscendingLists == {q \in SeqsUpTo(1..(NumChain - 1), MaxSucc) : Ascending(q)}

\* the forward domains on NumChain states: successors() of s lists at most
\* MaxSucc states after s, in ascending order; the goal set is a nonempty set of
\* the last two states.  These are the domains deep enough for a state to be
\* reached first along a longer path and later along a shorter one.
InitForward ==
    /\ strategy \in Strategies
    /\ initial = 0
    /\ domain = "graph"
    /\ succ \in {f \in [0..(NumChain - 1) -> AscendingLists] :
                    \A s \in 0..(NumChain - 1) :
                        \A i \in 1..Len(f[s]) : f[s][i] > s}
    /\ goal \in (SUBSET {NumChain - 2, NumChain - 1}) \ {{}}
    /\ heuristic \in Heuristics(strategy, 0..(NumChain - 1))
    /\ SearchStart

\* the forward domains with no goal state at all or the last state alone as
\* goal: the searches that go on after a state was reached a second time
InitForwardFewGoals ==
    /\ strategy \in Strategies
    /\ initial = 0
    /\ domain = "graph"
    /\ succ \in {f \in [0..(NumChain - 1) -> AscendingLists] :
                    \A s \in 0..(NumChain - 1) :
                        \A i \in 1..Len(f[s]) : f[s][i] > s}
    /\ goal \in {{}, {NumChain - 1}}
    /\ heuristic \in Heuristics(strategy, 0..(NumChain - 1))
    /\ SearchStart

\* ------------------------------------------------------------------ search()

\* while let Some(transition) = queue.dequeue(), goal(transition.state()):
\* return the plan
ReturnPlan ==
    /\ pc = "loop"
    /\ \E k \in Dequeue(strategy, queue) :
        LET t == queue[k] IN
        /\ GoalTest(trans[t].state)
        /\ queue' = RemoveAt(queue, k)
        /\ dequeued' = Append(dequeued, t)
        /\ result' = [returned |-> TRUE, plan |-> Some(extract_plan(t))]
        /\ pc' = "done"
    /\ UNCHANGED <<probe, inputs, seen, trans, index, best_h, statistics,
                   transition, successors>>

\* the else branch up to the for loop: count the expansion, filter (and for
\* steepest ascent sort) the successors
Expand ==
    /\ pc = "loop"
    /\ \E k \in Dequeue(strategy, queue) :
        LET t == queue[k] IN
        /\ ~GoalTest(trans[t].state)
        /\ queue' = RemoveAt(queue, k)
        /\ dequeued' = Append(dequeued, t)
        /\ statistics' = CountExpanded(statistics)
        /\ transition' = t
        /\ successors' = SurvivingSuccessors(strategy, t)
        /\ pc' = IF successors' = <<>> THEN "loop" ELSE "for"
    /\ UNCHANGED <<probe, inputs, seen, trans, index, best_h, result>>

\* one pass of the for loop: construct the successor transition, put it in the
\* closed set, clear the frontier on an improving h under ehc, enqueue, break
CreateSuccessor ==
    /\ pc = "for"
    /\ successors # <<>>
    /\ Len(trans) < TransitionCap
    /\ LET successor_state == Head(successors)
           current_h == HeuristicOf(successor_state)
           next_index == NextIndex(index)
           succ_transition ==
               NewSuccessor(successor_state, transition, next_index, current_h)
           at == Len(trans) + 1
           improving == current_h < best_h
           skip_siblings == improving /\ Config(strategy).ehc
       IN
        /\ statistics' = CountQueued(CountCreated(statistics))
        /\ index' = next_index
        /\ trans' = Append(trans, succ_transition)
        /\ seen' = SeenInsert(seen, successor_state, at)
        /\ best_h' = IF improving THEN current_h ELSE best_h
        /\ queue' = Enqueue(IF skip_siblings THEN Clear(queue) ELSE queue, at)
        /\ successors' = IF skip_siblings THEN <<>> ELSE Tail(successors)
        /\ pc' = IF successors' = <<>> THEN "loop" ELSE "for"
    /\ UNCHANGED <<probe, inputs, transition, dequeued, result>>

\* the while loop ends on an empty frontier: no plan
ReturnNone ==
    /\ pc = "loop"
    /\ Dequeue(strategy, queue) = {}
    /\ result' = [returned |-> TRUE, plan |-> None]
    /\ pc' = "done"
    /\ UNCHANGED <<probe, inputs, seen, trans, queue, index, best_h, statistics,
                   transition, successors, dequeued>>

Next == ReturnPlan \/ Expand \/ CreateSuccessor \/ ReturnNone

Spec == Init /\ [][Next]_vars

SpecForward == InitForward /\ [][Next]_vars

SpecForwardFewGoals == InitForwardFewGoals /\ [][Next]_vars

\* search() is one sequential loop: whenever it has a next step it takes it
FairSpec == InitFewGoals /\ [][Next]_vars /\ WF_vars(Next)

\* the guard on Len(trans) never stops a run
CapNotReached == pc = "for" => Len(trans) < TransitionCap

TypeOK ==
    /\ strategy \in Strategies
    /\ pc \in {"loop", "for", "done"}
    /\ \A i \in 1..Len(trans) : trans[i].parent \in 0..(i - 1)
    /\ \A i \in 1..Len(queue) : queue[i] \in 1..Len(trans)
    /\ \A s \in States : seen[s] \in 0..Len(trans)
    /\ result.returned = (pc = "done")

\* ------------------------------------------------------------------ the test domain

TEST_GOAL == 5

ScalarLast == 10

\* successors by two and four
TestSuccessorsByTwo(n, top) ==
    SelectSeq(<<n + 2, n + 4>>, LAMBDA m : m <= top)

\* TestState::successors: value + 1, value + 2, value + 3; in a domain that
\* ends at top the values above top are left out
TestSuccessors(n, top) ==
    SelectSeq(<<n + 1, n + 2, n + 3>>, LAMBDA m : m <= top)

\* the closure |_| 0 of the unit tests
ZeroHeuristic(S) == [n \in S |-> 0]

\* the distance to TEST_GOAL, and the sentinel i32::MAX past it
DistanceHeuristic(S) ==
    [n \in S |-> IF n > TEST_GOAL THEN I32_MAX ELSE TEST_GOAL - n]

\* the domain of the unit tests as far as ScalarLast
TestDomain == [n \in 0..ScalarLast |-> TestSuccessors(n, ScalarLast)]

\* the same domain ending just below TEST_GOAL
TestDomainShort == [n \in 0..ScalarLast |-> TestSuccessors(n, TEST_GOAL - 1)]

\* the five entry points called on TestState { value: 0 } with the goal
\* closure |state| state.value == 5
InitScalar ==
    /\ strategy \in Strategies
    /\ initial = 0
    /\ domain = "graph"
    /\ succ \in {TestDomain, TestDomainShort}
    /\ goal = {TEST_GOAL}
    /\ heuristic \in IF strategy = "breadth_first_search"
                     THEN {BlindHeuristic(0..ScalarLast)}
                     ELSE {ZeroHeuristic(0..ScalarLast),
                           DistanceHeuristic(0..ScalarLast)}
    /\ SearchStart

SpecScalar == InitScalar /\ [][Next]_vars /\ WF_vars(Next)

\* no state whose successors ScalarLast cuts off is ever expanded
ScalarLastNotReached ==
    \A k \in 1..Len(dequeued) :
        trans[dequeued[k]].state \notin goal =>
            trans[dequeued[k]].state + 3 <= ScalarLast

\* ------------------------------------------------------------------ the 8-puzzle runs

\* the boards of the tests of lib.rs
EasyBoard == BoardNew(TilesOf(<<1, 2, 3, 4, 5, 6, 7, 0, 8>>))

HardBoard1 == BoardNew(TilesOf(<<8, 6, 7, 2, 5, 4, 3, 0, 1>>))

HardBoard2 == BoardNew(TilesOf(<<6, 4, 7, 8, 5, 0, 3, 2, 1>>))

\* a board from which ehc_search clears its frontier and then runs out of it
StuckBoard == BoardNew(TilesOf(<<3, 4, 7, 8, 5, 6, 1, 2, 0>>))

\* the calls that are run: every entry point that takes a heuristic on the
\* easy board, ehc_search on the second hard board and on the stuck board
BoardRuns ==
    {<<st, EasyBoard>> : st \in Strategies \ {"breadth_first_search"}}
        \cup {<<"ehc_search", HardBoard2>>, <<"ehc_search", StuckBoard>>}

\* lib.rs: the entry points on BoardState, with the successors of the board,
\* the Manhattan distance as heuristic and goal_check as goal; succ and
\* heuristic hold no graph
InitBoard ==
    /\ domain = "board"
    /\ succ = <<>>
    /\ heuristic = <<>>
    /\ goal = {BoardId(GOAL)}
    /\ \E run \in BoardRuns :
          /\ strategy = run[1]
          /\ initial = BoardId(run[2])
    /\ SearchStart

SpecBoard == InitBoard /\ [][Next]_vars

\* ------------------------------------------------------------------ a_star_eval on its own

EdgeWidth == 3

\* the numbers within EdgeWidth of either end of 0..i32::MAX
EdgeValues == (0..EdgeWidth) \cup {I32_MAX - k : k \in 0..EdgeWidth}

\* u32 values within EdgeWidth of 0, of i32::MAX, of 2^31 and of u32::MAX
U32EdgeValues == [high : {0, 1}, low : EdgeValues]

\* no search is running
NoSearch ==
    /\ strategy = "a_star_search"
    /\ initial = 0
    /\ domain = "graph"
    /\ succ = [s \in {0} |-> <<>>]
    /\ heuristic = [s \in {0} |-> 0]
    /\ goal = {}
    /\ seen = [s \in {0} |-> 0]
    /\ trans = <<>>
    /\ queue = <<>>
    /\ index = 0
    /\ best_h = 0
    /\ statistics = [created |-> 0, queued |-> 0, expanded |-> 0]
    /\ transition = 0
    /\ successors = <<>>
    /\ dequeued = <<>>
    /\ result = [returned |-> FALSE, plan |-> None]

searchVars == <<strategy, initial, succ, heuristic, goal, domain, seen, trans,
                queue, index, best_h, statistics, transition, successors,
                dequeued, result>>

\* a transition with g and h at the edges of their types is about to be
\* handed to a_star_eval
InitEval ==
    /\ NoSearch
    /\ pc = "call"
    /\ probe \in [g : U32EdgeValues, h : EdgeValues, out : {None}]

\* a_star_eval returns
CallAStarEval ==
    /\ pc = "call"
    /\ probe' = [probe EXCEPT !.out = Some(a_star_eval_of(probe.g, probe.h))]
    /\ pc' = "returned"
    /\ UNCHANGED searchVars

SpecEval == InitEval /\ [][CallAStarEval]_vars

\* ------------------------------------------------------------------ Board::successors on its own

\* one board of each of the two classes the moves keep apart: the tiles of
\* GOAL, and the same with tiles 1 and 2 exchanged
SeedBoards ==
    {BoardNew(TilesOf(<<1, 2, 3, 4, 5, 6, 7, 8, 0>>)),
     BoardNew(TilesOf(<<2, 1, 3, 4, 5, 6, 7, 8, 0>>))}

\* a board built by Board::new is about to be asked for its successors
InitSuccessors ==
    /\ NoSearch
    /\ pc = "call"
    /\ probe \in [board : SeedBoards, out : {None}]

\* board.successors() returns
CallSuccessors ==
    /\ pc = "call"
    /\ probe' = [probe EXCEPT !.out = Some(BoardSuccessors(probe.board))]
    /\ pc' = "returned"
    /\ UNCHANGED searchVars

\* the caller goes on with one of the boards returned
TakeSuccessor ==
    /\ pc = "returned"
    /\ \E k \in 1..Len(probe.out[1]) :
          probe' = [board |-> probe.out[1][k], out |-> None]
    /\ pc' = "call"
    /\ UNCHANGED searchVars

SpecSuccessors ==
    InitSuccessors /\ [][CallSuccessors \/ TakeSuccessor]_vars

\* ------------------------------------------------------------------ Board::manhattan_dist on its own

MaxMoves == 10

\* the board that is_goal() accepts, as Board::new builds it, no move made
InitDistance ==
    /\ NoSearch
    /\ pc = "call"
    /\ probe = [board |-> BoardNew(GOAL.tiles), moves |-> 0, out |-> None]

\* board.manhattan_dist() returns
CallManhattanDist ==
    /\ pc = "call"
    /\ probe' = [probe EXCEPT !.out = Some(manhattan_dist(probe.board))]
    /\ pc' = "returned"
    /\ UNCHANGED searchVars

\* one more move is made: the board becomes one of its successors.  A move is
\* undone by the move back, so a board reached from the goal board in n moves
\* reaches the goal board in n moves.
MoveBlank ==
    /\ pc = "returned"
    /\ probe.moves < MaxMoves
    /\ \E k \in 1..Len(BoardSuccessors(probe.board)) :
          probe' = [board |-> BoardSuccessors(probe.board)[k],
                    moves |-> probe.moves + 1, out |-> None]
    /\ pc' = "call"
    /\ UNCHANGED searchVars

SpecDistance == InitDistance /\ [][CallManhattanDist \/ MoveBlank]_vars

\* ------------------------------------------------------------------ the domain as a graph

Range(q) == {q[i] : i \in 1..Len(q)}

\* the states reachable from the states of S through successors()
RECURSIVE ReachableFrom(_)
ReachableFrom(S) ==
    LET more == S \cup UNION {Range(succ[s]) : s \in S}
    IN  IF more = S THEN S ELSE ReachableFrom(more)

Reachable == ReachableFrom({initial})

GoalReachable == Reachable \cap goal # {}

\* stands for "no path": more steps than any path without a repeated state has
Unreachable == Cardinality(States) + 1

\* the least number of successor steps from a state of layer to a state of
\* target, counting from d; Unreachable when there is none
RECURSIVE StepsFrom(_, _, _, _)
StepsFrom(layer, visited, target, d) ==
    IF layer \cap target # {} THEN d
    ELSE LET next == (UNION {Range(succ[s]) : s \in layer}) \ visited
         IN  IF next = {} THEN Unreachable
             ELSE StepsFrom(next, visited \cup next, target, d + 1)

\* the least number of steps from s to a goal state
MinSteps(s) == StepsFrom({s}, {s}, goal, 0)

\* non-negative and never above the true least number of steps to a goal
Admissible ==
    \A s \in States :
        /\ heuristic[s] >= 0
        /\ MinSteps(s) # Unreachable => heuristic[s] <= MinSteps(s)

PlanReturned == result.returned /\ result.plan # None

ThePlan == result.plan[1]

\* ------------------------------------------------------------------ claims

\* C1: whenever any strategy returns a plan, the plan's first element is the
\* initial state and its last element satisfies the goal predicate.
PlanEndpoints ==
    PlanReturned =>
        /\ Len(ThePlan) >= 1
        /\ ThePlan[1] = initial
        /\ ThePlan[Len(ThePlan)] \in goal

\* a plan of three states was returned
PlanEndpointsWitness ==
    PlanReturned /\ Len(ThePlan) = 3 /\ ThePlan[3] # initial

\* C2: in every returned plan each state after the first is one of the
\* successors() of the state before it.
PlanIsPath ==
    PlanReturned =>
        \A i \in 1..(Len(ThePlan) - 1) : ThePlan[i + 1] \in Range(succ[ThePlan[i]])

\* a plan of three different states was returned by ehc_search
PlanIsPathWitness ==
    /\ PlanReturned /\ strategy = "ehc_search"
    /\ Len(ThePlan) = 3 /\ Cardinality(Range(ThePlan)) = 3

\* C3: a plan returned by breadth_first_search has the least number of states
\* any path from the initial state to a goal state has.
BfsPlanMinimal ==
    (PlanReturned /\ strategy = "breadth_first_search") =>
        Len(ThePlan) = MinSteps(initial) + 1

\* breadth_first_search returned a three-state plan where a goal state is
\* also reached by a longer path, and the frontier still held transitions
BfsPlanMinimalWitness ==
    /\ PlanReturned /\ strategy = "breadth_first_search"
    /\ Len(ThePlan) = 3
    /\ queue # <<>>
    /\ \E s \in States : s \notin Range(ThePlan) /\ s \in Reachable
                          /\ Range(succ[s]) \cap goal # {}

\* C4: with an admissible heuristic a plan returned by a_star_search has the
\* least number of states any path from the initial state to a goal state has.
AStarPlanMinimal ==
    (PlanReturned /\ strategy = "a_star_search" /\ Admissible) =>
        Len(ThePlan) = MinSteps(initial) + 1

\* a_star_search, admissible heuristic: a state was put in the closed set with
\* some g, reached again with a strictly smaller g and enqueued again, and the
\* plan returned runs through the later transition
AStarPlanMinimalWitness ==
    /\ PlanReturned /\ strategy = "a_star_search" /\ Admissible
    /\ \E i, j \in 1..Len(trans) :
        /\ i < j
        /\ trans[i].state = trans[j].state
        /\ trans[j].g < trans[i].g
        /\ dequeued[Len(dequeued)] = j

\* C5: on an initial state that satisfies the goal every strategy returns the
\* plan of that one state with created = 1, queued = 1, expanded = 0, and
\* expands nothing on the way.
InitialGoal ==
    initial \in goal =>
        /\ pc # "for"
        /\ statistics = [created |-> 1, queued |-> 1, expanded |-> 0]
        /\ pc = "done" => result.plan = Some(<<initial>>)

\* ehc_steepest_search returned on an initial state that is a goal state and
\* has successors
InitialGoalWitness ==
    /\ initial \in goal /\ pc = "done" /\ strategy = "ehc_steepest_search"
    /\ succ[initial] # <<>>

\* C6: when no reachable state satisfies the goal, every strategy comes to an
\* end and returns no plan.
Terminates ==
    ~GoalReachable ~> (pc = "done" /\ result.returned /\ result.plan = None)

\* a search over a domain with a cycle and a goal state nobody reaches ended
\* without a plan after expanding every reachable state
TerminatesWitness ==
    /\ ~GoalReachable /\ goal # {} /\ pc = "done" /\ result.plan = None
    /\ Cardinality(Reachable) >= 2
    /\ statistics.expanded >= Cardinality(Reachable)
    /\ \E s \in Reachable \ {initial} : initial \in Range(succ[s])

\* C7 as stated: whenever any strategy returns no plan, no reachable state
\* satisfies the goal.
NoPlanOnlyIfExhausted ==
    (result.returned /\ result.plan = None) => ~GoalReachable

\* C7 as amended: whenever breadth_first_search, greedy_best_first_search or
\* a_star_search returns no plan, no reachable state satisfies the goal.
NoPlanOnlyIfExhaustedNoEhc ==
    (/\ result.returned /\ result.plan = None
     /\ strategy \in {"breadth_first_search", "greedy_best_first_search",
                      "a_star_search"}) =>
        ~GoalReachable

\* a_star_search returned no plan on a domain that has a goal state, after
\* expanding every reachable state
NoPlanOnlyIfExhaustedWitness ==
    /\ result.returned /\ result.plan = None /\ strategy = "a_star_search"
    /\ goal # {}
    /\ Cardinality(Reachable) >= 2
    /\ statistics.expanded >= Cardinality(Reachable)

\* C8: a transition constructed (and put in the closed set and the frontier)
\* after another transition for the same state has a strictly smaller g.
NeverReenqueuedWithSameOrLargerG ==
    \A i, j \in 1..Len(trans) :
        (i < j /\ trans[i].state = trans[j].state) => trans[j].g < trans[i].g

\* C9: at every point queued <= created and expanded <= queued, and no step
\* lowers created, queued or expanded.
CountersOrdered ==
    /\ [](statistics.queued <= statistics.created
          /\ statistics.expanded <= statistics.queued)
    /\ [][/\ statistics'.created >= statistics.created
          /\ statistics'.queued >= statistics.queued
          /\ statistics'.expanded >= statistics.expanded]_vars

\* a search ended after expanding every transition it had enqueued, three or
\* more
CountersOrderedWitness ==
    /\ pc = "done"
    /\ statistics.expanded = statistics.queued
    /\ statistics.queued >= 3

\* C10: the initial transition has index 0 and every transition has an index
\* strictly greater than that of every transition constructed before it, so no
\* two transitions share an index.
IndexStrictlyIncreasing ==
    /\ trans[1].index = 0
    /\ \A i, j \in 1..Len(trans) : i < j => trans[i].index < trans[j].index

\* transitions of two different expansions, after a frontier clear in between
IndexStrictlyIncreasingWitness ==
    /\ Len(trans) >= 4
    /\ Config(strategy).ehc
    /\ \E i, j \in 2..Len(trans) : trans[i].parent # trans[j].parent
    /\ best_h < heuristic[initial]

\* the transitions created so far for state s
TransitionsOf(s) == {i \in 1..Len(trans) : trans[i].state = s}

\* C11: for every state in the closed set, the g recorded there is the
\* smallest g among all transitions created for that state so far: replacing
\* the entry on insertion never puts a larger g over a smaller one.
ClosedSetHoldsSmallestG ==
    \A s \in States :
        /\ (seen[s] # 0) = (TransitionsOf(s) # {})
        /\ seen[s] # 0 =>
              /\ trans[seen[s]].state = s
              /\ \A i \in TransitionsOf(s) : trans[seen[s]].g <= trans[i].g

\* the entry of some state was replaced by a transition of strictly smaller g
ClosedSetHoldsSmallestGWitness ==
    \E s \in States :
        \E i \in TransitionsOf(s) :
            /\ seen[s] > i
            /\ trans[seen[s]].g < trans[i].g

\* the number of parent links from transition i back to the Initial one
RECURSIVE ParentLinks(_)
ParentLinks(i) ==
    IF trans[i].parent = 0 THEN 0 ELSE 1 + ParentLinks(trans[i].parent)

\* the transition the last dequeue returned
LastDequeued == dequeued[Len(dequeued)]

\* C12: the g of every transition is the number of parent links from it back
\* to the Initial transition, and a returned plan has exactly g + 1 states,
\* g being that of the goal transition it was extracted from.
GIsParentLinks ==
    /\ \A i \in 1..Len(trans) : trans[i].g = ParentLinks(i)
    /\ PlanReturned => Len(ThePlan) = trans[LastDequeued].g + 1

\* greedy_best_first_search returned a plan from a goal transition with g = 2
GIsParentLinksWitness ==
    /\ PlanReturned /\ strategy = "greedy_best_first_search"
    /\ trans[LastDequeued].g = 2 /\ Len(ThePlan) = 3

EhcStrategies == {"ehc_search", "ehc_steepest_search"}

\* the transitions created by the expansion of transition t
ChildrenOf(t) == {i \in 1..Len(trans) : trans[i].parent = t}

\* transition j had an h strictly below the h of every transition created
\* before it, the best h seen so far when it was created
Improving(j) == j > 1 /\ \A i \in 1..(j - 1) : trans[j].h < trans[i].h

\* the children of the last expansion that improved on the best h
RestartChildren ==
    IF dequeued = <<>> THEN {}
    ELSE {j \in ChildrenOf(LastDequeued) : Improving(j)}

\* C17: in ehc_search and ehc_steepest_search, when an expansion creates a
\* child with h strictly below the best h so far, then right after it the
\* frontier holds exactly that child (earlier entries and earlier siblings are
\* gone), no later sibling is created, and the next dequeue returns the child.
RestartKeepsOnlyTheChild ==
    /\ [](strategy \in EhcStrategies =>
            \A j \in RestartChildren :
                /\ pc = "loop"
                /\ successors = <<>>
                /\ j = Len(trans)
                /\ queue = <<j>>)
    /\ [][(strategy \in EhcStrategies /\ RestartChildren # {}) =>
            /\ trans' = trans
            /\ dequeued' = Append(dequeued, Len(trans))]_vars

\* ehc_search restarted from the second child of an expansion: the first
\* child was enqueued and discarded without ever being dequeued
RestartKeepsOnlyTheChildWitness ==
    /\ strategy = "ehc_search" /\ pc = "loop"
    /\ \E j \in RestartChildren :
          /\ queue = <<j>>
          /\ \E i \in ChildrenOf(LastDequeued) :
                i < j /\ i \notin Range(dequeued)

Min(S) == CHOOSE x \in S : \A y \in S : x <= y

Max(S) == CHOOSE x \in S : \A y \in S : x >= y

\* the closed-set entry state s had before transition t was expanded
SeenBefore(s, t) ==
    LET earlier == {i \in TransitionsOf(s) : trans[i].parent # t}
    IN  IF earlier = {} THEN 0 ELSE Max(earlier)

\* the successors of the state of t that were not pruned when t was expanded,
\* in the order successors() lists them
SurvivorsOf(t) ==
    SelectSeq(succ[trans[t].state],
              LAMBDA s : ~(/\ SeenBefore(s, t) # 0
                           /\ trans[SeenBefore(s, t)].g <= trans[t].g + 1))

\* list in ascending h, entries of equal h in the order they have in list
RECURSIVE ByAscendingH(_)
ByAscendingH(list) ==
    IF list = <<>> THEN <<>>
    ELSE LET m == Min({heuristic[list[i]] : i \in 1..Len(list)})
         IN  SelectSeq(list, LAMBDA s : heuristic[s] = m)
                 \o ByAscendingH(SelectSeq(list, LAMBDA s : heuristic[s] # m))

\* the states of the children of t, in the order they were created
RECURSIVE StatesFrom(_, _)
StatesFrom(t, i) ==
    IF i > Len(trans) THEN <<>>
    ELSE (IF trans[i].parent = t THEN <<trans[i].state>> ELSE <<>>)
             \o StatesFrom(t, i + 1)

\* C18: in ehc_steepest_search the surviving successors of an expansion are
\* taken in stable ascending order of h, so a restart child has the least h
\* of all surviving successors of its expansion and is the only transition
\* that expansion created; in ehc_search the restart child is the first
\* surviving successor, in the order of successors(), that improves.
RestartChildIsBest ==
    /\ (strategy = "ehc_steepest_search" /\ dequeued # <<>> /\ pc # "done") =>
          LET t == LastDequeued
              order == ByAscendingH(SurvivorsOf(t))
          IN  /\ pc = "for" => StatesFrom(t, 1) \o successors = order
              /\ \A j \in RestartChildren :
                    /\ ChildrenOf(t) = {j}
                    /\ trans[j].state = order[1]
                    /\ \A i \in 1..Len(order) :
                          trans[j].h <= heuristic[order[i]]
    /\ strategy = "ehc_search" =>
          \A j \in RestartChildren :
              LET t == LastDequeued
                  k == Cardinality(ChildrenOf(t))
                  best == Min({trans[i].h : i \in 1..(j - k)})
              IN  /\ trans[j].state = SurvivorsOf(t)[k]
                  /\ heuristic[SurvivorsOf(t)[k]] < best
                  /\ \A i \in 1..(k - 1) :
                        heuristic[SurvivorsOf(t)[i]] >= best

\* ehc_steepest_search restarted from a successor that successors() lists
\* second, behind a surviving successor of larger h
RestartChildIsBestWitness ==
    /\ strategy = "ehc_steepest_search" /\ pc = "loop"
    /\ \E j \in RestartChildren :
          /\ Len(SurvivorsOf(LastDequeued)) = 2
          /\ trans[j].state = SurvivorsOf(LastDequeued)[2]
          /\ heuristic[SurvivorsOf(LastDequeued)[1]] > trans[j].h

\* <<a1, a2>> comes before <<b1, b2>> in lexicographic order
LexLess2(a1, a2, b1, b2) == a1 < b1 \/ (a1 = b1 /\ a2 < b2)

\* C19: in greedy_best_first_search every dequeue returns the frontier entry
\* with the smallest h and, among those of equal h, the smallest index; g
\* plays no role.
GreedyDequeuesLeastH ==
    [][(strategy = "greedy_best_first_search" /\ dequeued' # dequeued) =>
         LET d == dequeued'[Len(dequeued')]
         IN  /\ d \in Range(queue)
             /\ \A e \in Range(queue) \ {d} :
                   LexLess2(trans[d].h, trans[d].index,
                            trans[e].h, trans[e].index)]_vars

\* greedy_best_first_search dequeued a transition while the frontier held an
\* older one of smaller g and larger h
GreedyDequeuesLeastHWitness ==
    /\ strategy = "greedy_best_first_search" /\ dequeued # <<>>
    /\ \E e \in Range(queue) :
          /\ e < LastDequeued
          /\ trans[e].g < trans[LastDequeued].g
          /\ trans[e].h > trans[LastDequeued].h

\* g + h, and i32::MAX when the sum reaches it
SaturatedF(t) == IF t.h >= I32_MAX - t.g THEN I32_MAX ELSE t.g + t.h

\* C20: in a_star_search every dequeue returns the frontier entry that is
\* least in the lexicographic order on (f, h, index), f being the saturated
\* sum g + h.
AStarDequeuesLeastF ==
    [][(strategy = "a_star_search" /\ dequeued' # dequeued) =>
         LET d == dequeued'[Len(dequeued')]
         IN  /\ d \in Range(queue)
             /\ \A e \in Range(queue) \ {d} :
                   \/ SaturatedF(trans[d]) < SaturatedF(trans[e])
                   \/ /\ SaturatedF(trans[d]) = SaturatedF(trans[e])
                      /\ LexLess2(trans[d].h, trans[d].index,
                                  trans[e].h, trans[e].index)]_vars

\* a_star_search dequeued a transition while the frontier held an older one
\* of the same f and larger h
AStarDequeuesLeastFWitness ==
    /\ strategy = "a_star_search" /\ dequeued # <<>>
    /\ \E e \in Range(queue) :
          /\ e < LastDequeued
          /\ SaturatedF(trans[e]) = SaturatedF(trans[LastDequeued])
          /\ trans[e].h > trans[LastDequeued].h

\* min(i32::MAX, g + h) for a u32 g given in halves and an h in 0..i32::MAX
SaturatedSum(g, h) ==
    IF g.high = 1 \/ h >= I32_MAX - g.low THEN I32_MAX ELSE g.low + h

\* C13: for every g >= 0 and every h in 0..i32::MAX, a_star_eval returns
\* min(i32::MAX, g + h), computed without intermediate overflow; in particular
\* it returns i32::MAX whenever h is the sentinel i32::MAX, for every g.
EvalIsSaturatedSum ==
    (pc = "returned") =>
        /\ probe.out = Some(SaturatedSum(probe.g, probe.h))
        /\ probe.h = I32_MAX => probe.out = Some(I32_MAX)

\* the same for the values of g that fit an i32
EvalIsSaturatedSumWithinI32 ==
    (pc = "returned" /\ probe.g.high = 0) =>
        probe.out = Some(SaturatedSum(probe.g, probe.h))

\* C14: on the test domain (successors n + 1, n + 2, n + 3; goal 5; initial
\* state 0) each of the five strategies returns a plan that starts at 0, ends
\* at 5 and whose consecutive states differ by 1, 2 or 3, both with the zero
\* heuristic and with h(n) = 5 - n up to 5 and i32::MAX past it.
ScalarPlanFound ==
    (succ = TestDomain) ~>
        /\ PlanReturned
        /\ ThePlan[1] = 0
        /\ ThePlan[Len(ThePlan)] = TEST_GOAL
        /\ \A i \in 1..(Len(ThePlan) - 1) :
              ThePlan[i + 1] - ThePlan[i] \in 1..3

\* a_star_search returned a plan on the test domain under the distance
\* heuristic, having constructed a transition whose h is the sentinel
ScalarPlanFoundWitness ==
    /\ succ = TestDomain /\ heuristic = DistanceHeuristic(0..ScalarLast)
    /\ strategy = "a_star_search" /\ PlanReturned
    /\ \E i \in 1..Len(trans) : trans[i].h = I32_MAX

\* C16: ehc_search with the Manhattan distance returns a plan of exactly 46
\* states for 8 6 7 2 5 4 3 0 1 and for 6 4 7 8 5 0 3 2 1, and so does
\* ehc_steepest_search for each of the two boards.
HillClimbingPlansHave46States ==
    (/\ pc = "done"
     /\ strategy \in {"ehc_search", "ehc_steepest_search"}
     /\ initial \in {BoardId(HardBoard1), BoardId(HardBoard2)}) =>
        /\ PlanReturned
        /\ Len(ThePlan) = 46
        /\ ThePlan[Len(ThePlan)] = BoardId(GOAL)

\* the positions 1 .. n in ascending order
UpTo(n) == [i \in 1..n |-> i]

\* C21: in breadth_first_search transitions are dequeued in exactly the order
\* in which they were enqueued: what was dequeued followed by what the
\* frontier holds is every transition in the order of construction (so no
\* frontier clear ever drops one), the indexes of successively dequeued
\* transitions are strictly increasing, and every stored h is 0.
BfsDequeuesInEnqueueOrder ==
    strategy = "breadth_first_search" =>
        /\ dequeued \o queue = UpTo(Len(trans))
        /\ \A i, j \in 1..Len(dequeued) :
              i < j => trans[dequeued[i]].index < trans[dequeued[j]].index
        /\ \A i \in 1..Len(trans) : trans[i].h = 0
        /\ best_h = 0

\* breadth_first_search dequeued three transitions, the last one a child of
\* the second, while the frontier held another
BfsDequeuesInEnqueueOrderWitness ==
    /\ strategy = "breadth_first_search"
    /\ Len(dequeued) = 3 /\ queue # <<>>
    /\ trans[dequeued[3]].parent = 2

\* the dequeued transitions whose state does not satisfy the goal
ExpandedTransitions ==
    {k \in 1..Len(dequeued) : trans[dequeued[k]].state \notin goal}

\* C22: created is 1 plus the number of successor transitions constructed
\* (successors pruned by the filter construct none and are not counted),
\* queued is the number of enqueue operations, the initial one included, so
\* created = queued throughout, also when an ehc clear discards transitions,
\* and expanded is the number of dequeued transitions whose state did not
\* satisfy the goal.
StatisticsCountWhatHappened ==
    /\ [](/\ statistics.created = 1 + (Len(trans) - 1)
          /\ statistics.queued = statistics.created
          /\ statistics.expanded = Cardinality(ExpandedTransitions))
    /\ [][/\ trans' # trans =>
               /\ trans' = Append(trans, trans'[Len(trans')])
               /\ queue' # <<>> /\ queue'[Len(queue')] = Len(trans')
               /\ statistics'.queued = statistics.queued + 1
          /\ trans' = trans =>
               /\ statistics'.queued = statistics.queued
               /\ \A e \in Range(queue') : e \in Range(queue)]_vars

\* ehc_search returned a plan after an expansion that had a successor pruned
\* and after a clear that discarded a transition nobody ever dequeued
StatisticsCountWhatHappenedWitness ==
    /\ strategy = "ehc_search" /\ PlanReturned
    /\ \E i \in 1..Len(trans) : i \notin Range(dequeued) /\ i \notin Range(queue)
    /\ \E k \in 1..Len(dequeued) :
          Len(succ[trans[dequeued[k]].state])
              > Cardinality(ChildrenOf(dequeued[k]))
    /\ statistics.expanded >= 2

\* C23: once a transition for state s has been expanded with g = k, no
\* transition for s with g >= k is expanded later in the run; a stale
\* frontier entry whose state was meanwhile enqueued again and expanded at a
\* smaller g is not expanded.
NoReExpansionAtSameOrLargerG ==
    \A i, j \in ExpandedTransitions :
        (i < j /\ trans[dequeued[i]].state = trans[dequeued[j]].state) =>
            trans[dequeued[j]].g < trans[dequeued[i]].g

\* the cells next to cell p in its row or its column
Neighbours(p) ==
    {q \in Positions :
        \/ (q \div 3 = p \div 3 /\ Abs(q - p) = 1)
        \/ (q % 3 = p % 3 /\ Abs(q - p) = 3)}

\* the board b with the tile of cell q slid into the blank
Slide(b, q) ==
    [tiles |-> [i \in Positions |->
                   IF i = q THEN 0
                   ELSE IF i = b.zero THEN b.tiles[q] ELSE b.tiles[i]],
     zero |-> q]

\* C24: for every board built by Board::new from a permutation of 0..8,
\* successors() returns exactly the boards obtained by swapping the blank with
\* each cell next to it in its row or column: each successor is a permutation
\* of 0..8 that differs from the board in exactly those two cells, its zero
\* field is the index of its blank, the successors are pairwise distinct, and
\* there are successor_count() of them: 4 for the blank at position 4, 3 at
\* odd positions, 2 at the corners.
SuccessorsAreTheSlides ==
    (pc = "returned") =>
        LET b == probe.board
            out == probe.out[1]
        IN  /\ Range(out) = {Slide(b, q) : q \in Neighbours(b.zero)}
            /\ \A k \in 1..Len(out) :
                  /\ {out[k].tiles[i] : i \in Positions} = Tiles
                  /\ {i \in Positions : out[k].tiles[i] # b.tiles[i]}
                         = {b.zero, out[k].zero}
                  /\ out[k].tiles[out[k].zero] = 0
            /\ Cardinality(Range(out)) = Len(out)
            /\ Len(out) = successor_count(b)
            /\ Len(out) = IF b.zero = 4 THEN 4
                          ELSE IF b.zero \in {1, 3, 5, 7} THEN 3 ELSE 2

\* successors() returned four boards for a board with the blank in the middle
\* and tile 8 in the first cell
SuccessorsAreTheSlidesWitness ==
    /\ pc = "returned"
    /\ probe.board.zero = 4 /\ probe.board.tiles[0] = 8
    /\ Len(probe.out[1]) = 4

\* the states of transition i and of its ancestors, up to the Initial one
RECURSIVE ChainStates(_)
ChainStates(i) ==
    IF trans[i].parent = 0 THEN {trans[i].state}
    ELSE {trans[i].state} \cup ChainStates(trans[i].parent)

\* C25: a returned plan never contains the same state twice: a successor
\* equal to the state of the expanded transition or of one of its ancestors
\* is always pruned, each of them being in the closed set with a g smaller
\* than the candidate's, so no transition has its state among its ancestors.
PlanHasNoRepeatedState ==
    /\ PlanReturned => Injective(ThePlan)
    /\ \A i \in 2..Len(trans) :
          trans[i].state \notin ChainStates(trans[i].parent)
    /\ pc = "for" =>
          /\ Range(successors) \cap ChainStates(transition) = {}
          /\ \A s \in ChainStates(transition) :
                seen[s] # 0 /\ trans[seen[s]].g < trans[transition].g + 1

\* a plan of three states was returned where the initial state lists itself
\* first among its successors and the second state of the plan lists the
\* initial state first
PlanHasNoRepeatedStateWitness ==
    /\ PlanReturned /\ Len(ThePlan) = 3
    /\ succ[ThePlan[2]] = <<initial, ThePlan[3]>>
    /\ succ[initial] = <<initial, ThePlan[2]>>

\* the entry points that never clear the frontier
NoClearStrategies ==
    {"breadth_first_search", "greedy_best_first_search", "a_star_search"}

\* C26: breadth_first_search, greedy_best_first_search and a_star_search
\* eventually return a plan whenever a goal state is reachable (the state
\* space being finite): no enqueued transition is ever dropped, every
\* enqueued transition is eventually dequeued unless a plan is returned
\* first, and a successor is pruned only if a transition for its state was
\* constructed and enqueued before.
NoClearSearchFindsGoal ==
    /\ (strategy \in NoClearStrategies /\ GoalReachable) ~> PlanReturned
    /\ [](strategy \in NoClearStrategies =>
            Range(queue) \cup Range(dequeued) = 1..Len(trans))
    /\ \A i \in 1..MaxTransitions :
          (strategy \in NoClearStrategies /\ i \in Range(queue))
              ~> (i \in Range(dequeued) \/ PlanReturned)
    /\ [](strategy \in NoClearStrategies =>
            \A k \in ExpandedTransitions :
                \A s \in Range(succ[trans[dequeued[k]].state]) :
                    \/ TransitionsOf(s) # {}
                    \/ (pc = "for" /\ k = Len(dequeued)
                        /\ s \in Range(successors)))

\* greedy_best_first_search returned a plan of three states after two
\* expansions, one of which had a successor pruned, with transitions left in
\* the frontier
NoClearSearchFindsGoalWitness ==
    /\ strategy = "greedy_best_first_search" /\ PlanReturned
    /\ Len(ThePlan) = 3 /\ queue # <<>>
    /\ \E k \in 1..Len(dequeued) :
          Len(succ[trans[dequeued[k]].state])
              > Cardinality(ChildrenOf(dequeued[k]))

\* C27: Board::manhattan_dist, which sums the Manhattan distance of all nine
\* cell values, the blank included, to their goal positions, is admissible:
\* for every board from which GOAL is reachable it never exceeds the least
\* number of moves to GOAL (so it is no larger than the length of any
\* sequence of moves between the board and the goal board), and it is 0
\* exactly on the goal board.
ManhattanDistAdmissible ==
    (pc = "returned") =>
        /\ probe.out[1] <= probe.moves
        /\ (probe.out[1] = 0) = (probe.board.tiles = GOAL.tiles)

\* the sum of manhattan_dist without the term of the blank
RECURSIVE TilesDistanceFrom(_, _)
TilesDistanceFrom(tiles, i) ==
    IF i > 8 THEN 0
    ELSE (IF tiles[i] = 0 THEN 0
          ELSE manhattan_dist_positions(i, GOAL_MAP[tiles[i]]))
             + TilesDistanceFrom(tiles, i + 1)

\* what manhattan_dist returns is the distance of the eight tiles plus that
\* of the blank, the distance of the eight tiles alone never exceeds the
\* number of moves, and manhattan_dist is 0 exactly on the goal board
TilesDistanceAdmissible ==
    (pc = "returned") =>
        /\ probe.out[1] = TilesDistanceFrom(probe.board.tiles, 0)
              + manhattan_dist_positions(probe.board.zero, GOAL_MAP[0])
        /\ TilesDistanceFrom(probe.board.tiles, 0) <= probe.moves
        /\ (probe.out[1] = 0) = (probe.board.tiles = GOAL.tiles)

====
